---- MODULE Spec2Model ----
(***************************************************************************)
(* Model of rslib/src/search/searcher.rs: the compiler from a search       *)
(* expression tree (Node) to SQL predicate text plus bound arguments.      *)
(*                                                                         *)
(* Representation.                                                         *)
(*   - A Rust &str that the code inspects (names, patterns, tag text,      *)
(*     argument values) is a sequence of one-character strings.            *)
(*   - ctx.sql is a sequence of pieces (strings); the emitted text is the  *)
(*     concatenation of the pieces in order.  "(" , ")" , "," , the        *)
(*     placeholders "?" / "?N" and the connectors are pieces of their own, *)
(*     numbers are rendered with ToString.                                 *)
(*   - ctx.args is the sequence of bound values.                           *)
(*   - ctx.req is the request context: the storage snapshot the            *)
(*     collaborator calls read, the set of calls that fail, the iteration  *)
(*     order each all_note_types() call yields, and whether the build      *)
(*     checks integer overflow.                                            *)
(*   - ctx.err is "none" until a `?` propagates an error ("Panic" when the *)
(*     thread panics); ctx.calls logs                                      *)
(*     the collaborator calls made, in order.                              *)
(***************************************************************************)
EXTENDS Integers, Sequences, FiniteSets, TLC

VARIABLES pc, req, node, nt_orders, result, buf, ids

vars == <<pc, req, node, nt_orders, result, buf, ids>>

----------------------------------------------------------------------------
(* Bounds of the model *)

\* longest id list handed to ids_to_string by the FormatIds action
MaxIds == 3
\* longest child list of the generated nested groups
MaxGroupLen == 2

----------------------------------------------------------------------------
(* Text helpers *)

Range(s) == {s[i] : i \in 1..Len(s)}

UpperCase ==
    <<"A", "B", "C", "D", "E", "F", "G", "H", "I", "J", "K", "L", "M",
      "N", "O", "P", "Q", "R", "S", "T", "U", "V", "W", "X", "Y", "Z">>
LowerCase ==
    <<"a", "b", "c", "d", "e", "f", "g", "h", "i", "j", "k", "l", "m",
      "n", "o", "p", "q", "r", "s", "t", "u", "v", "w", "x", "y", "z">>

\* u8::to_ascii_lowercase: A-Z become a-z, every other character is kept
Lower(c) ==
    IF \E i \in 1..26 : UpperCase[i] = c
    THEN LowerCase[CHOOSE i \in 1..26 : UpperCase[i] = c]
    ELSE c

to_ascii_lowercase(s) == [i \in 1..Len(s) |-> Lower(s[i])]

\* str::eq_ignore_ascii_case
eq_ignore_ascii_case(a, b) == to_ascii_lowercase(a) = to_ascii_lowercase(b)

\* str::starts_with
starts_with(s, prefix) ==
    /\ Len(prefix) <= Len(s)
    /\ SubSeq(s, 1, Len(prefix)) = prefix

\* str::replace(from, to) for a one-character `from`
replace(s, from, to) == [i \in 1..Len(s) |-> IF s[i] = from THEN to ELSE s[i]]

\* glob match of pattern p against text t; "*" matches any run of characters
RECURSIVE Glob(_, _)
Glob(t, p) ==
    IF p = <<>> THEN t = <<>>
    ELSE IF Head(p) = "*"
         THEN \E k \in 0..Len(t) : Glob(SubSeq(t, k + 1, Len(t)), Tail(p))
         ELSE /\ t # <<>>
              /\ Head(t) = Head(p)
              /\ Glob(Tail(t), Tail(p))

\* crate::text::matches_wildcard: case-insensitive, "*" is the only wildcard
matches_wildcard(text, search) ==
    IF "*" \in Range(search)
    THEN Glob(to_ascii_lowercase(text), to_ascii_lowercase(search))
    ELSE eq_ignore_ascii_case(text, search)

\* x as u8, for an i8 x
AsU8(x) == x % 256

----------------------------------------------------------------------------
(* Machine numbers.  The integers of the checker are 32-bit signed, so a u32 *)
(* is the record [hi, lo] that stands for hi * 2^31 + lo, hi in 0..1 and lo  *)
(* in 0..2^31-1; i32 and the i64 values of the model are plain integers.     *)

I32_MAX == 2147483647
I32_MIN == (-2147483647) - 1

U32(h, l) == [hi |-> h, lo |-> l]
U32_MAX == U32(1, I32_MAX)

Pad5(n) ==
    (CASE n < 10 -> "0000"
       [] n >= 10 /\ n < 100 -> "000"
       [] n >= 100 /\ n < 1000 -> "00"
       [] n >= 1000 /\ n < 10000 -> "0"
       [] OTHER -> "") \o ToString(n)

\* Display of a u32: its decimal digits
U32ToString(u) ==
    IF u.hi = 0 THEN ToString(u.lo)
    ELSE LET low == (u.lo % 100000) + 83648
             high == (u.lo \div 100000) + 21474 + (low \div 100000)
         IN  ToString(high) \o Pad5(low % 100000)

\* u as i32: the same 32 bits read as two's complement
AsI32(u) == IF u.hi = 0 THEN u.lo ELSE (u.lo - I32_MAX) - 1

\* whether a + b leaves the range of i32
AddOverflows(a, b) ==
    \/ a > 0 /\ b > 0 /\ b > I32_MAX - a
    \/ a < 0 /\ b < 0 /\ b < I32_MIN - a

\* i32 addition modulo 2^32
WrappingAdd(a, b) ==
    IF a > 0 /\ b > 0 /\ b > I32_MAX - a
    THEN ((a - I32_MAX) - 1) + ((b - I32_MAX) - 1)
    ELSE IF a < 0 /\ b < 0 /\ b < I32_MIN - a
    THEN ((a + I32_MAX) + 1) + ((b + I32_MAX) + 1)
    ELSE a + b

RECURSIVE Pow2(_)
Pow2(n) == IF n = 0 THEN 1 ELSE 2 * Pow2(n - 1)

\* number of binary digits of n >= 0
RECURSIVE BitLen(_)
BitLen(n) == IF n = 0 THEN 0 ELSE 1 + BitLen(n \div 2)

\* n / 2^k rounded to the nearest integer, ties to even
RoundShift(n, k) ==
    LET q == n \div Pow2(k)
        r == n % Pow2(k)
        half == Pow2(k - 1)
    IN  IF k = 0 THEN n
        ELSE IF r > half \/ (r = half /\ q % 2 = 1) THEN q + 1 ELSE q

\* An f32 is [class, neg, m, e]: class "finite" stands for (-1)^neg * m * 2^e
\* with m in 0..2^24-1; class "inf" and "nan" are the special values.
F32(n, mant, expo) == [class |-> "finite", neg |-> n, m |-> mant, e |-> expo]
F32_NAN == [class |-> "nan", neg |-> FALSE, m |-> 0, e |-> 0]
F32_INF == [class |-> "inf", neg |-> FALSE, m |-> 0, e |-> 0]

----------------------------------------------------------------------------
(* crate::card::CardQueue *)

CardQueue_New == 0
CardQueue_Learn == 1
CardQueue_Review == 2
CardQueue_DayLearn == 3
CardQueue_Suspended == -1
CardQueue_SchedBuried == -2
CardQueue_UserBuried == -3

----------------------------------------------------------------------------
(* Storage collaborators, read through ctx.req *)

\* a collaborator call: logged; fails with a database error when the
\* request context says so
Call(ctx, name) ==
    [ctx EXCEPT !.calls = Append(@, name),
                !.err = IF name \in ctx.req.fail THEN "DBError" ELSE @]

\* what the all_note_types() call just logged returned: a HashMap, whose
\* values() come in an order of their own on every call.  req.nt_orders[k] is
\* the order of the k-th call of the compile.
all_note_types(ctx) ==
    ctx.req.nt_orders[Cardinality({i \in 1..Len(ctx.calls) : ctx.calls[i] = "all_note_types"})]

\* crate::decks::get_deck: the deck with the given id, <<>> when absent
get_deck(decks, did) ==
    LET hits == SelectSeq(decks, LAMBDA d : d.id = did)
    IN  IF hits = <<>> THEN <<>> ELSE <<Head(hits)>>

\* crate::decks::child_ids: ids of the decks whose name starts with name + "::"
child_ids(decks, name) ==
    LET prefix == to_ascii_lowercase(name) \o <<":", ":">>
        kids == SelectSeq(decks,
                    LAMBDA d : starts_with(to_ascii_lowercase(d.name), prefix))
    IN  [i \in 1..Len(kids) |-> kids[i].id]

\* crate::text::strip_html_preserving_image_filenames: markup are the
\* characters "<" ... ">" and what lies between them
RECURSIVE StripFrom(_, _)
StripFrom(s, inTag) ==
    IF s = <<>> THEN <<>>
    ELSE IF inTag
         THEN StripFrom(Tail(s), Head(s) # ">")
         ELSE IF Head(s) = "<"
              THEN StripFrom(Tail(s), TRUE)
              ELSE <<Head(s)>> \o StripFrom(Tail(s), FALSE)

strip_html_preserving_image_filenames(text) == StripFrom(text, FALSE)

CharCode(c) ==
    CASE c = "a" -> 97
      [] c = "b" -> 98
      [] c = "<" -> 60
      [] c = ">" -> 62
      [] OTHER -> 63

\* crate::notes::field_checksum: a deterministic non-negative integer hash
\* of the text (a polynomial hash stands for the digest the crate computes)
RECURSIVE field_checksum(_)
field_checksum(text) ==
    IF text = <<>> THEN 0
    ELSE (31 * field_checksum(SubSeq(text, 1, Len(text) - 1))
          + CharCode(text[Len(text)])) % 1000003

----------------------------------------------------------------------------
(* ids_to_string, searcher.rs:306-319 *)

\* a variant that writes the ids in input order
ids_to_string_in_order(b, idlist) ==
    b \o <<"(">> \o
        (IF idlist = <<>> THEN <<>>
         ELSE [k \in 1..(2 * Len(idlist) - 1) |->
                  IF k % 2 = 1 THEN ToString(idlist[(k + 1) \div 2]) ELSE ","])
        \o <<")">>

\* the loop `for id in ids.iter().skip(1) { write!(buf, "{},", id) }`
RECURSIVE IdsSkipLoop(_, _, _)
IdsSkipLoop(b, idlist, i) ==
    IF i > Len(idlist) THEN b
    ELSE IdsSkipLoop(b \o <<ToString(idlist[i]), ",">>, idlist, i + 1)

ids_to_string(b, idlist) ==
    LET b1 == Append(b, "(")
        b2 == IF idlist # <<>>
              THEN Append(IdsSkipLoop(b1, idlist, 2), ToString(idlist[1]))
              ELSE b1
    IN  Append(b2, ")")

----------------------------------------------------------------------------
(* SearchContext, searcher.rs:17-22 *)

SearchContext(r) == [req |-> r, sql |-> <<>>, args |-> <<>>, err |-> "none", calls |-> <<>>]

\* write!(ctx.sql, ...) / ctx.sql.push_str(...)
Emit(ctx, pieces) == [ctx EXCEPT !.sql = @ \o pieces]

\* ctx.args.push(...)
Push(ctx, v) == [ctx EXCEPT !.args = Append(@, v)]

Failed(ctx) == ctx.err # "none"

\* concatenation of f(s[1]), f(s[2]), ... in order
RECURSIVE Flatten(_)
Flatten(ss) == IF ss = <<>> THEN <<>> ELSE Head(ss) \o Flatten(Tail(ss))

FlatMap(s, f(_)) == Flatten([i \in 1..Len(s) |-> f(s[i])])

\* [String]::join(sep) on a list of piece sequences
RECURSIVE Join(_, _)
Join(parts, sep) ==
    IF parts = <<>> THEN <<>>
    ELSE IF Len(parts) = 1 THEN parts[1]
    ELSE parts[1] \o sep \o Join(Tail(parts), sep)

\* the sentinel strings the handlers compare against
STR_none == <<"n", "o", "n", "e">>
STR_star == <<"*">>
STR_filtered == <<"f", "i", "l", "t", "e", "r", "e", "d">>
STR_current == <<"c", "u", "r", "r", "e", "n", "t">>

----------------------------------------------------------------------------
(* Leaf handlers *)

\* a variant that binds the wrapped text once for its two placeholders
write_unqualified_one_push(ctx, text) ==
    LET t == <<"%">> \o text \o <<"%">>
        c1 == Emit(ctx, <<"(", "n.sfld like ", "?", " escape '\\'", " or ",
                          "n.flds like ", "?", " escape '\\'", ")">>)
    IN  Push(c1, t)

\* searcher.rs:89-99
write_unqualified(ctx, text) ==
    LET t == <<"%">> \o text \o <<"%">>
        c1 == Emit(ctx, <<"(", "n.sfld like ", "?", " escape '\\'", " or ",
                          "n.flds like ", "?", " escape '\\'", ")">>)
    IN  Push(Push(c1, t), t)

\* searcher.rs:101-110
write_tag(ctx, text) ==
    IF text = STR_none
    THEN Emit(ctx, <<"n.tags = ''">>)
    ELSE LET tag == <<" ", "%">> \o replace(text, "*", "%") \o <<"%", " ">>
         IN  Push(Emit(ctx, <<"n.tags like ", "?">>), tag)

Min(a, b) == IF a < b THEN a ELSE b

\* searcher.rs:112-129; ease is <<>> (None) or <<e>> (Some(e))
write_rated(ctx, days, ease) ==
    LET c1 == Call(ctx, "timing_today")
        today_cutoff == ctx.req.timing.next_day_at
        d == Min(days, 31)
        target_cutoff == today_cutoff - 86400 * d
        c2 == Emit(c1, <<"c.id in ", "(", "select cid from revlog where id>",
                         ToString(target_cutoff)>>)
    IN  IF Failed(c1) THEN c1
        ELSE IF ease # <<>>
             THEN Emit(c2, <<"and", " ease=", ToString(ease[1]), ")">>)
             ELSE Emit(c2, <<")">>)

\* (ease * 1000.0) as u32.  The product is the f32 nearest to m * 1000 * 2^e
\* (m * 125 fits 31 bits and is rounded to 24, ties to even); the cast
\* truncates toward zero, saturates at 0 and at u32::MAX, and NaN is 0.
EaseAsU32(ease) ==
    LET p == ease.m * 125
        k == IF BitLen(p) > 24 THEN BitLen(p) - 24 ELSE 0
        q == RoundShift(p, k)
        x == ease.e + 3 + k
    IN  IF ease.class = "nan" \/ ease.neg THEN U32(0, 0)
        ELSE IF ease.class = "inf" THEN U32_MAX
        ELSE IF q = 0 THEN U32(0, 0)
        ELSE IF x >= 0
             THEN IF BitLen(q) + x > 32 THEN U32_MAX
                  ELSE IF BitLen(q) + x = 32
                       THEN U32(1, (q * Pow2(x - 1) - Pow2(30)) * 2)
                       ELSE U32(0, q * Pow2(x))
             ELSE IF -x >= 31 THEN U32(0, 0) ELSE U32(0, q \div Pow2(-x))

\* searcher.rs:131-152
write_prop(ctx, op, kind) ==
    LET c1 == Call(ctx, "timing_today")
        timing == ctx.req.timing
        elapsed == AsI32(timing.days_elapsed)
    IN  IF Failed(c1) THEN c1
        ELSE CASE kind.kind = "Due" ->
                    \* `days + (timing.days_elapsed as i32)`: a build with
                    \* overflow checks panics when the sum leaves i32, a
                    \* build without them wraps
                    IF AddOverflows(kind.days, elapsed) /\ ctx.req.overflow_checks
                    THEN [c1 EXCEPT !.err = "Panic"]
                    ELSE
                    Emit(c1, <<"(", "c.queue in ", "(",
                               ToString(AsU8(CardQueue_Review)), ",",
                               ToString(AsU8(CardQueue_DayLearn)), ")",
                               " and ", "due ", op, " ",
                               ToString(WrappingAdd(kind.days, elapsed)), ")">>)
               [] kind.kind = "Interval" ->
                    Emit(c1, <<"ivl ", op, " ", ToString(kind.ivl)>>)
               [] kind.kind = "Reps" ->
                    Emit(c1, <<"reps ", op, " ", ToString(kind.reps)>>)
               [] kind.kind = "Lapses" ->
                    Emit(c1, <<"lapses ", op, " ", ToString(kind.days)>>)
               [] kind.kind = "Ease" ->
                    Emit(c1, <<"ease ", op, " ", U32ToString(EaseAsU32(kind.ease))>>)

\* searcher.rs:154-186
write_state(ctx, state) ==
    LET c1 == Call(ctx, "timing_today")
        timing == ctx.req.timing
    IN  IF Failed(c1) THEN c1
        ELSE CASE state = "New" ->
                    Emit(c1, <<"c.queue = ", ToString(AsU8(CardQueue_New))>>)
               [] state = "Review" ->
                    Emit(c1, <<"c.queue = ", ToString(AsU8(CardQueue_Review))>>)
               [] state = "Learning" ->
                    Emit(c1, <<"c.queue in ", "(",
                               ToString(AsU8(CardQueue_Learn)), ",",
                               ToString(AsU8(CardQueue_DayLearn)), ")">>)
               [] state = "Buried" ->
                    Emit(c1, <<"c.queue in ", "(",
                               ToString(AsU8(CardQueue_SchedBuried)), ",",
                               ToString(AsU8(CardQueue_UserBuried)), ")">>)
               [] state = "Suspended" ->
                    Emit(c1, <<"c.queue = ", ToString(AsU8(CardQueue_Suspended))>>)
               [] state = "Due" ->
                    Emit(c1, <<"\n", "(", "c.queue in ", "(",
                               ToString(AsU8(CardQueue_Review)), ",",
                               ToString(AsU8(CardQueue_DayLearn)), ")",
                               " and ", "c.due <= ",
                               U32ToString(timing.days_elapsed), ")", " or", "\n",
                               "(", "c.queue = ", ToString(AsU8(CardQueue_Learn)),
                               " and ", "c.due <= ",
                               ToString(timing.next_day_at), ")">>)

\* searcher.rs:188-219
write_deck(ctx, deck) ==
    IF deck = STR_star THEN Emit(ctx, <<"true">>)
    ELSE IF deck = STR_filtered THEN Emit(ctx, <<"c.odid > 0">>)
    ELSE
      LET c1 == Call(ctx, "all_decks")
          all_decks == ctx.req.decks
          c2 == Call(c1, "all_config")
          config == ctx.req.config
          current == get_deck(all_decks, config.current_deck_id)
          curDids == <<config.current_deck_id>>
                       \o child_ids(all_decks, current[1].name)
          matching == SelectSeq(all_decks,
                                LAMBDA d : matches_wildcard(d.name, deck))
          DeckAndChildren(d) == <<d.id>> \o child_ids(all_decks, d.name)
          patDids == FlatMap(matching, DeckAndChildren)
          Finish(c, dids) ==
              [c EXCEPT !.sql = ids_to_string(@ \o <<"c.did in ">>, dids)]
      IN  IF Failed(c1) THEN c1
          ELSE IF deck = STR_current
               THEN IF Failed(c2) THEN c2
                    ELSE IF current = <<>>
                         THEN [c2 EXCEPT !.err = "InvalidInput"]
                         ELSE Finish(c2, curDids)
               ELSE Finish(c1, patDids)

\* a variant without the is_empty test: an empty match list is joined too
write_template_unchecked(ctx, template) ==
    IF template.kind = "Ordinal"
    THEN Emit(ctx, <<"c.ord = ", ToString(template.n)>>)
    ELSE
      LET c1 == Call(ctx, "all_note_types")
          OfNoteType(nt) ==
              LET OfTemplate(tmpl) ==
                      IF matches_wildcard(tmpl.name, template.name)
                      THEN << <<"(", "n.mid = ", ToString(nt.id), " and ",
                                "c.ord = ", ToString(tmpl.ord), ")">> >>
                      ELSE <<>>
              IN  FlatMap(nt.templates, OfTemplate)
          id_ords == FlatMap(all_note_types(c1), OfNoteType)
      IN  IF Failed(c1) THEN c1
          ELSE Emit(c1, <<"(">> \o Join(id_ords, <<",">>) \o <<")">>)

\* searcher.rs:221-245
write_template(ctx, template) ==
    IF template.kind = "Ordinal"
    THEN Emit(ctx, <<"c.ord = ", ToString(template.n)>>)
    ELSE
      LET c1 == Call(ctx, "all_note_types")
          note_types == all_note_types(c1)
          OfNoteType(nt) ==
              LET OfTemplate(tmpl) ==
                      IF matches_wildcard(tmpl.name, template.name)
                      THEN << <<"(", "n.mid = ", ToString(nt.id), " and ",
                                "c.ord = ", ToString(tmpl.ord), ")">> >>
                      ELSE <<>>
              IN  FlatMap(nt.templates, OfTemplate)
          id_ords == FlatMap(note_types, OfNoteType)
      IN  IF Failed(c1) THEN c1
          ELSE IF id_ords = <<>>
               THEN Emit(c1, <<"false">>)
               ELSE Emit(c1, <<"(">> \o Join(id_ords, <<",">>) \o <<")">>)

\* searcher.rs:247-259
write_note_type(ctx, nt_name) ==
    LET c1 == Call(ctx, "all_note_types")
        matching == SelectSeq(all_note_types(c1),
                              LAMBDA nt : matches_wildcard(nt.name, nt_name))
        ntids == [i \in 1..Len(matching) |-> matching[i].id]
    IN  IF Failed(c1) THEN c1
        ELSE [c1 EXCEPT !.sql = ids_to_string(@ \o <<"n.mid in ">>, ntids)]

\* searcher.rs:261-292
write_single_field(ctx, field_name, val) ==
    LET c1 == Call(ctx, "all_note_types")
        note_types == all_note_types(c1)
        OfNoteType(nt) ==
            LET OfField(field) ==
                    IF eq_ignore_ascii_case(field.name, field_name)
                    THEN << <<nt.id, field.ord>> >>
                    ELSE <<>>
            IN  FlatMap(nt.fields, OfField)
        field_map == FlatMap(note_types, OfNoteType)
        c2 == Push(Emit(c1, <<"(">>), val)
        arg_idx == Len(c2.args)
        Branch(p) == <<"(", "n.mid = ", ToString(p[1]), " and ",
                       "field_at_index", "(", "n.flds, ", ToString(p[2]), ")",
                       " like ", "?" \o ToString(arg_idx), ")">>
    IN  IF Failed(c1) THEN c1
        ELSE IF field_map = <<>>
             THEN Emit(c1, <<"false">>)
             ELSE Emit(Emit(c2, FlatMap(field_map, Branch)), <<")">>)

\* searcher.rs:294-304
write_dupes(ctx, ntid, text) ==
    LET text_nohtml == strip_html_preserving_image_filenames(text)
        csum == field_checksum(text_nohtml)
        c1 == Emit(ctx, <<"(", "n.mid = ", ToString(ntid), " and ",
                          "n.csum = ", ToString(csum), " and ",
                          "field_at_index", "(", "n.flds, ", "0", ")",
                          " = ", "?">>)
    IN  Push(c1, text)

\* searcher.rs:56-87
write_search_node_to_sql(ctx, search) ==
    CASE search.kind = "UnqualifiedText" -> write_unqualified(ctx, search.text)
      [] search.kind = "SingleField" ->
            write_single_field(ctx, search.field, search.text)
      [] search.kind = "AddedInDays" ->
            Emit(ctx, <<"c.id > ", ToString(search.days)>>)
      [] search.kind = "CardTemplate" -> write_template(ctx, search.template)
      [] search.kind = "Deck" -> write_deck(ctx, search.deck)
      [] search.kind = "NoteTypeID" ->
            Emit(ctx, <<"n.mid = ", ToString(search.ntid)>>)
      [] search.kind = "NoteType" -> write_note_type(ctx, search.notetype)
      [] search.kind = "Rated" -> write_rated(ctx, search.days, search.ease)
      [] search.kind = "Tag" -> write_tag(ctx, search.tag)
      [] search.kind = "Duplicates" ->
            write_dupes(ctx, search.note_type_id, search.text)
      [] search.kind = "State" -> write_state(ctx, search.state)
      [] search.kind = "Flag" ->
            Emit(ctx, <<"(", "c.flags & 7", ")", " == ", ToString(search.flag)>>)
      [] search.kind = "NoteIDs" ->
            Emit(ctx, <<"n.id in ", "(", search.nids, ")">>)
      [] search.kind = "CardIDs" ->
            Emit(ctx, <<"c.id in ", "(", search.cids, ")">>)
      [] search.kind = "Property" -> write_prop(ctx, search.operator, search.kind_)

----------------------------------------------------------------------------
(* Tree walker *)

RECURSIVE write_node_to_sql(_, _)

\* a variant of the loop that visits the children last to first
RECURSIVE GroupLoopReversed(_, _)
GroupLoopReversed(ctx, nodes) ==
    IF nodes = <<>> THEN ctx
    ELSE LET c1 == write_node_to_sql(ctx, nodes[Len(nodes)])
         IN  IF Failed(c1) THEN c1
             ELSE GroupLoopReversed(c1, SubSeq(nodes, 1, Len(nodes) - 1))

\* the loop `for node in nodes { write_node_to_sql(ctx, node)?; }`
RECURSIVE GroupLoop(_, _)
GroupLoop(ctx, nodes) ==
    IF nodes = <<>> THEN ctx
    ELSE LET c1 == write_node_to_sql(ctx, Head(nodes))
         IN  IF Failed(c1) THEN c1 ELSE GroupLoop(c1, Tail(nodes))

\* searcher.rs:36-54
write_node_to_sql(ctx, n) ==
    CASE n.kind = "And" -> Emit(ctx, <<" and ">>)
      [] n.kind = "Or" -> Emit(ctx, <<" or ">>)
      [] n.kind = "Not" -> write_node_to_sql(Emit(ctx, <<"not ">>), n.node)
      [] n.kind = "Group" ->
            LET c1 == GroupLoop(Emit(ctx, <<"(">>), n.nodes)
            IN  IF Failed(c1) THEN c1 ELSE Emit(c1, <<")">>)
      [] n.kind = "Search" -> write_search_node_to_sql(ctx, n.search)

\* a variant that hands back what was written before the failure
node_to_sql_partial(r, n) ==
    LET sctx == write_node_to_sql(SearchContext(r), n)
    IN  [tag |-> "Ok", sql |-> sctx.sql, args |-> sctx.args, calls |-> sctx.calls]

\* searcher.rs:25-34
node_to_sql(r, n) ==
    LET sctx == write_node_to_sql(SearchContext(r), n)
    IN  IF sctx.err = "Panic"
        THEN [tag |-> "Panic", calls |-> sctx.calls]
        ELSE IF Failed(sctx)
        THEN [tag |-> "Err", err |-> sctx.err, calls |-> sctx.calls]
        ELSE [tag |-> "Ok", sql |-> sctx.sql, args |-> sctx.args,
              calls |-> sctx.calls]

----------------------------------------------------------------------------
(* Inputs: storage snapshots *)

NT1 == [id |-> 1, name |-> <<"b", "a">>,
        fields |-> << [name |-> <<"F">>, ord |-> 0], [name |-> <<"g">>, ord |-> 1] >>,
        templates |-> << [name |-> <<"c", "a">>, ord |-> 0],
                         [name |-> <<"c", "b">>, ord |-> 1] >>]
NT2 == [id |-> 2, name |-> <<"b", "b">>,
        fields |-> << [name |-> <<"f">>, ord |-> 0] >>,
        templates |-> << [name |-> <<"C", "a">>, ord |-> 0] >>]
NT3 == [id |-> 3, name |-> <<"x">>,
        fields |-> << [name |-> <<"h">>, ord |-> 0], [name |-> <<"f">>, ord |-> 1] >>,
        templates |-> << [name |-> <<"r">>, ord |-> 0] >>]

\* the note types of the collection, listed by id
NoteTypeCatalogs == { <<>>, <<NT3>>, <<NT1, NT2>>, <<NT1, NT2, NT3>> }

\* the orders in which a HashMap of these note types may be iterated
Perms(s) ==
    {p \in [1..Len(s) -> Range(s)] :
        \A i \in 1..Len(s) : \A j \in 1..Len(s) : i # j => p[i] # p[j]}

D1 == [id |-> 1, name |-> <<"a">>]
D2 == [id |-> 2, name |-> <<"A", ":", ":", "b">>]
D3 == [id |-> 3, name |-> <<"c">>]

DeckCatalogs == { <<>>, <<D1, D2, D3>>, <<D3, D2, D1>> }

\* config.current_deck_id: a deck of the catalog, or an id no deck has
CurrentDeckIds == {1, 9}

\* days_elapsed is a u32, next_day_at an i64 timestamp
Timings == { [days_elapsed |-> U32(0, 10), next_day_at |-> 5000000],
             [days_elapsed |-> U32(0, 0), next_day_at |-> 86400],
             [days_elapsed |-> U32(0, I32_MAX), next_day_at |-> 1600000000],
             [days_elapsed |-> U32_MAX, next_day_at |-> 1600000000] }

Collaborators == {"timing_today", "all_decks", "all_config", "all_note_types"}

\* which collaborator calls fail: none, or one of them
FailSets == {{}} \cup {{c} : c \in Collaborators}

BaseReq == [note_types |-> <<NT1, NT2>>, decks |-> <<D1, D2, D3>>,
            config |-> [current_deck_id |-> 1],
            timing |-> [days_elapsed |-> U32(0, 10), next_day_at |-> 5000000],
            fail |-> {}, overflow_checks |-> FALSE]

Requests ==
    {[BaseReq EXCEPT !.note_types = c] : c \in NoteTypeCatalogs}
    \cup {[BaseReq EXCEPT !.decks = d, !.config.current_deck_id = i] :
             d \in DeckCatalogs, i \in CurrentDeckIds}
    \cup {[BaseReq EXCEPT !.fail = f, !.config.current_deck_id = i] :
             f \in FailSets, i \in CurrentDeckIds}
    \cup {[BaseReq EXCEPT !.timing = t, !.overflow_checks = b] :
             t \in Timings, b \in BOOLEAN}
    \cup {[BaseReq EXCEPT !.timing = t, !.overflow_checks = TRUE,
                           !.config.current_deck_id = 9] : t \in Timings}

----------------------------------------------------------------------------
(* Inputs: expression trees *)

And == [kind |-> "And"]
Or == [kind |-> "Or"]
Not(n) == [kind |-> "Not", node |-> n]
Group(ns) == [kind |-> "Group", nodes |-> ns]
Search(s) == [kind |-> "Search", search |-> s]

UnqualifiedText(t) == [kind |-> "UnqualifiedText", text |-> t]
SingleField(f, t) == [kind |-> "SingleField", field |-> f, text |-> t]
AddedInDays(d) == [kind |-> "AddedInDays", days |-> d]
CardTemplate(t) == [kind |-> "CardTemplate", template |-> t]
Ordinal(n) == [kind |-> "Ordinal", n |-> n]
Name(n) == [kind |-> "Name", name |-> n]
Deck(d) == [kind |-> "Deck", deck |-> d]
NoteTypeID(i) == [kind |-> "NoteTypeID", ntid |-> i]
NoteType(n) == [kind |-> "NoteType", notetype |-> n]
Rated(d, e) == [kind |-> "Rated", days |-> d, ease |-> e]
Tag(t) == [kind |-> "Tag", tag |-> t]
Duplicates(i, t) == [kind |-> "Duplicates", note_type_id |-> i, text |-> t]
State(s) == [kind |-> "State", state |-> s]
Flag(f) == [kind |-> "Flag", flag |-> f]
NoteIDs(l) == [kind |-> "NoteIDs", nids |-> l]
CardIDs(l) == [kind |-> "CardIDs", cids |-> l]
Property(op, k) == [kind |-> "Property", operator |-> op, kind_ |-> k]

StateKinds == {"New", "Review", "Learning", "Buried", "Suspended", "Due"}

PropertyKinds ==
    { [kind |-> "Due", days |-> 1], [kind |-> "Due", days |-> -3],
      [kind |-> "Interval", ivl |-> 21], [kind |-> "Reps", reps |-> 4],
      [kind |-> "Lapses", days |-> 2],
      [kind |-> "Ease", ease |-> F32(FALSE, 5, -1)],
      [kind |-> "Ease", ease |-> F32(TRUE, 1, -1)],
      [kind |-> "Ease", ease |-> F32(FALSE, 8420065, -20)],
      [kind |-> "Ease", ease |-> F32(FALSE, 8422162, -25)],
      [kind |-> "Ease", ease |-> F32(FALSE, 3000000, 0)],
      [kind |-> "Ease", ease |-> F32(FALSE, 4294968, 0)],
      [kind |-> "Ease", ease |-> F32_NAN],
      [kind |-> "Ease", ease |-> F32_INF] }

\* one or two leaves of every kind: the leaves combined in pairs
PairLeaves ==
    { UnqualifiedText(<<"a">>),
      SingleField(<<"f">>, <<"a", "%">>),
      SingleField(<<"z">>, <<"a">>),
      AddedInDays(1),
      CardTemplate(Ordinal(0)),
      CardTemplate(Name(<<"c", "*">>)),
      Deck(STR_current),
      Deck(<<"a", "*">>),
      NoteTypeID(2),
      NoteType(<<"b", "*">>),
      Rated(40, <<>>),
      Rated(2, <<3>>),
      Tag(<<"a", "*", "b">>),
      Tag(STR_none),
      Duplicates(1, <<"<", "b", ">", "a">>),
      State("Due"),
      Flag(3),
      NoteIDs("1,2"),
      CardIDs("7"),
      Property("<=", [kind |-> "Due", days |-> 1]) }

AllLeaves ==
    PairLeaves
    \cup { UnqualifiedText(<<>>), UnqualifiedText(<<"a", "*">>),
           SingleField(<<"G">>, <<"b">>), SingleField(<<"h">>, <<>>),
           CardTemplate(Name(<<"c", "a">>)), CardTemplate(Name(<<"z">>)),
           CardTemplate(Name(<<"*">>)), CardTemplate(Ordinal(2)),
           Deck(STR_star), Deck(STR_filtered), Deck(<<"a">>), Deck(<<"z">>),
           Deck(<<"*", "b">>),
           NoteType(<<"x">>), NoteType(<<"z">>), NoteType(<<"B", "A">>),
           Rated(0, <<1>>),
           Tag(<<"a">>), Tag(<<"*">>), Tag(<<>>),
           Duplicates(2, <<"a", "b">>), Duplicates(2, <<"a", "<", "b", ">", "b">>),
           Flag(0), NoteIDs(""), CardIDs("3,4,5") }
    \cup { State(s) : s \in StateKinds }
    \cup { Property(op, k) : op \in {"<", "="}, k \in PropertyKinds }

\* the leaves combined in longer and nested groups
CoreLeaves ==
    { UnqualifiedText(<<"a">>), SingleField(<<"f">>, <<"a", "%">>),
      Tag(<<"a", "*", "b">>), Deck(STR_current), State("Due") }

InnerLeaves == { UnqualifiedText(<<"a">>), Duplicates(1, <<"<", "b", ">", "a">>) }

SeqsUpTo(S, n) == UNION {[1..k -> S] : k \in 0..n}

Connectors == {And, Or}

\* Group lists as the parser may hand them over; the compiler does not
\* validate the alternation of operands and connectors
FlatGroups ==
    { Group(s) : s \in SeqsUpTo(Connectors \cup {Search(l) : l \in CoreLeaves},
                                MaxGroupLen) }

InnerGroups == { Group(s) : s \in SeqsUpTo({Search(l) : l \in InnerLeaves}, MaxGroupLen) }

Trees ==
    { Search(l) : l \in AllLeaves }
    \cup Connectors
    \cup { Not(Search(l)) : l \in AllLeaves }
    \cup { Group(<<Search(a), c, Search(b)>>) :
             a \in PairLeaves, c \in Connectors, b \in PairLeaves }
    \cup { Group(<<Search(a), And, Search(b), Or, Not(Search(c))>>) :
             a \in CoreLeaves, b \in CoreLeaves, c \in CoreLeaves }
    \cup FlatGroups
    \cup { Group(<<g, c, Not(h)>>) :
             g \in InnerGroups, c \in Connectors, h \in InnerGroups }
    \cup { Not(Not(Group(<<Search(l), And, g>>))) :
             l \in CoreLeaves, g \in InnerGroups }
    \cup { Group(<<g, c, Not(Group(<<Search(SingleField(<<"f">>, <<"a", "%">>))>>))>>) :
             g \in InnerGroups, c \in Connectors }

IdValues == {5, 6, 7}

IdLists == SeqsUpTo(IdValues, MaxIds)

\* what a caller has written to the buffer before it calls ids_to_string
Prefixes == { <<>>, <<"c.did in ">>, <<"(", "n.mid in ">>, <<"(", "5", ",", "6", ")">> }

----------------------------------------------------------------------------
(* The state machine *)

NoResult == [tag |-> "None"]

\* the leaves of a tree, left to right
RECURSIVE LeavesOf(_)
LeavesOf(n) ==
    CASE n.kind = "Search" -> <<n.search>>
      [] n.kind = "Not" -> LeavesOf(n.node)
      [] n.kind = "Group" -> Flatten([i \in 1..Len(n.nodes) |-> LeavesOf(n.nodes[i])])
      [] OTHER -> <<>>

\* the leaves whose handler calls all_note_types()
ReadsNoteTypes(leaf) ==
    \/ leaf.kind \in {"SingleField", "NoteType"}
    \/ leaf.kind = "CardTemplate" /\ leaf.template.kind = "Name"

\* the most calls of all_note_types() one compile of the tree makes
NtReads(n) == Len(SelectSeq(LeavesOf(n), ReadsNoteTypes))

\* the request context of one compile: the storage snapshot together with
\* the iteration order each call of all_note_types() yields
Serving(r, orders) ==
    [f \in DOMAIN r \cup {"nt_orders"} |-> IF f = "nt_orders" THEN orders ELSE r[f]]

Init ==
    /\ pc = "ready"
    /\ req \in Requests
    /\ node \in Trees
    /\ nt_orders = <<>>
    /\ result = NoResult
    /\ buf = <<>>
    /\ ids = <<>>

\* one call of node_to_sql(req, node); every call of all_note_types() in it
\* hands back the note types in an order of its own
Compile ==
    /\ pc = "ready"
    /\ \E orders \in [1..NtReads(node) -> Perms(req.note_types)] :
          /\ nt_orders' = orders
          /\ result' = node_to_sql(Serving(req, orders), node)
    /\ pc' = "done"
    /\ UNCHANGED <<req, node, buf, ids>>

Next == Compile

Spec == Init /\ [][Next]_vars

InitIds ==
    /\ pc = "ready"
    /\ req = BaseReq
    /\ node = And
    /\ nt_orders = <<>>
    /\ result = NoResult
    /\ buf \in Prefixes
    /\ ids = <<>>

\* one call of ids_to_string(&mut buf, &l); ids records the calls made
FormatIds ==
    /\ pc = "ready"
    /\ \E l \in IdLists :
          /\ buf' = ids_to_string(buf, l)
          /\ ids' = <<buf, l>>
    /\ pc' = "done"
    /\ UNCHANGED <<req, node, nt_orders, result>>

NextIds == FormatIds

SpecIds == InitIds /\ [][NextIds]_vars

----------------------------------------------------------------------------
(* Reading the emitted text *)

Done == pc = "done"
Ok == result.tag = "Ok"

Max(a, b) == IF a > b THEN a ELSE b

\* "?N" for a number N the text can hold
IsNumbered(p) == \E n \in 0..50 : p = "?" \o ToString(n)
NumberOf(p) == CHOOSE n \in 0..50 : p = "?" \o ToString(n)
IsPlaceholder(p) == p = "?" \/ IsNumbered(p)

Placeholders(sql) == SelectSeq(sql, IsPlaceholder)

\* the parameter position of each placeholder, as SQLite assigns it: "?N" is
\* position N, a bare "?" is one more than the largest position so far
RECURSIVE PositionsFrom(_, _)
PositionsFrom(ph, largest) ==
    IF ph = <<>> THEN <<>>
    ELSE LET n == IF Head(ph) = "?" THEN largest + 1 ELSE NumberOf(Head(ph))
         IN  <<n>> \o PositionsFrom(Tail(ph), Max(largest, n))

Positions(sql) == PositionsFrom(Placeholders(sql), 0)

\* the text with every numbered placeholder "?N" rewritten to "?(N+k)"
Shift(sql, k) ==
    [i \in 1..Len(sql) |->
        IF IsNumbered(sql[i]) THEN "?" \o ToString(NumberOf(sql[i]) + k) ELSE sql[i]]

Count(sql, piece) == Cardinality({i \in 1..Len(sql) : sql[i] = piece})

\* "(" minus ")" among the first i pieces
Depth(sql, i) == Count(SubSeq(sql, 1, i), "(") - Count(SubSeq(sql, 1, i), ")")

Balanced(sql) ==
    /\ \A i \in 1..Len(sql) : Depth(sql, i) >= 0
    /\ Depth(sql, Len(sql)) = 0

IsConnector(p) == p \in {" and ", " or ", "and", " or"}

\* a connector that no parenthesis of the text encloses
HasTopLevelConnector(sql) ==
    \E i \in 1..Len(sql) : IsConnector(sql[i]) /\ Depth(sql, i) = 0

\* the (note type, field) pairs whose field name matches, in the order of nts
MatchingFields(nts, field_name) ==
    LET OfNoteType(nt) ==
            LET fs == SelectSeq(nt.fields,
                         LAMBDA f : to_ascii_lowercase(f.name) = to_ascii_lowercase(field_name))
            IN  [i \in 1..Len(fs) |-> [ntid |-> nt.id, ord |-> fs[i].ord]]
    IN  FlatMap(nts, OfNoteType)

\* the (note type, template) pairs whose template name matches
MatchingTemplates(nts, pattern) ==
    LET OfNoteType(nt) ==
            LET ts == SelectSeq(nt.templates, LAMBDA t : matches_wildcard(t.name, pattern))
            IN  [i \in 1..Len(ts) |-> [ntid |-> nt.id, ord |-> ts[i].ord]]
    IN  FlatMap(nts, OfNoteType)

----------------------------------------------------------------------------
(* C1 *)

\* C1 as stated: on success the text holds as many placeholders as there are
\* bound values, and the i-th placeholder from the left is parameter i.
C1_PlaceholderPerValue ==
    (Done /\ Ok) =>
        /\ Len(Placeholders(result.sql)) = Len(result.args)
        /\ \A i \in 1..Len(Placeholders(result.sql)) : Positions(result.sql)[i] = i

\* C1 amended: on success the placeholders, numbered as SQLite numbers them,
\* refer to the positions 1..n of the n bound values, every position at least
\* once and in non-decreasing order from the left; a position is referred to
\* more than once only by the numbered placeholder of a SingleField leaf.
C1_PlaceholdersCoverValues ==
    (Done /\ Ok) =>
        LET ph == Placeholders(result.sql)
            pos == Positions(result.sql)
        IN  /\ Range(pos) = 1..Len(result.args)
            /\ \A i \in 1..Len(pos) : \A j \in 1..Len(pos) : i < j => pos[i] <= pos[j]
            /\ \A i \in 1..Len(pos) : \A j \in 1..Len(pos) :
                   (i # j /\ pos[i] = pos[j]) => (IsNumbered(ph[i]) /\ ph[i] = ph[j])

\* a SingleField leaf matching two or more fields follows an UnqualifiedText
\* leaf: more placeholders than values
C1_Witness ==
    /\ Done /\ Ok
    /\ node.kind = "Group"
    /\ Len(result.args) = 3
    /\ Len(Placeholders(result.sql)) > 3
    /\ Positions(result.sql)[1] = 1
    /\ \E i \in 1..Len(result.sql) : result.sql[i] = "?3"

----------------------------------------------------------------------------
(* C2 *)

\* what Group(children) is to yield from its children compiled one by one,
\* with the numbered placeholders of child i moved by shift(i)
GroupText(parts, shift(_)) ==
    <<"(">> \o Flatten([i \in 1..Len(parts) |-> Shift(parts[i].sql, shift(i))]) \o <<")">>

ArgsBefore(parts, i) == Len(Flatten([j \in 1..(i - 1) |-> parts[j].args]))

\* child i of the compiled Group compiled on its own, its calls of
\* all_note_types() answered as they were answered inside the group
ChildAlone(i) ==
    LET before == NtReads(Group(SubSeq(node.nodes, 1, i - 1)))
        own == NtReads(node.nodes[i])
    IN  node_to_sql(Serving(req, SubSeq(nt_orders, before + 1, before + own)),
                    node.nodes[i])

\* C2 as stated: Group([A, And, B]) yields "(" + compile(A) + " and " +
\* compile(B) + ")" and the parameters of A followed by those of B, for
\* arbitrary leaves A and B (each compiled against the same answers of the
\* storage).
C2_GroupIsConcatenation ==
    (Done /\ Ok /\ node.kind = "Group" /\ Len(node.nodes) = 3
          /\ node.nodes[1].kind = "Search" /\ node.nodes[2] = And
          /\ node.nodes[3].kind = "Search") =>
        LET a == ChildAlone(1)
            b == ChildAlone(3)
        IN  /\ result.sql = <<"(">> \o a.sql \o <<" and ">> \o b.sql \o <<")">>
            /\ result.args = a.args \o b.args

\* C2 amended: Group(children) yields "(", the text of each child in list
\* order, ")", And being exactly " and " and Or exactly " or ", and the
\* parameters of the children in list order, where the text of a child is its
\* own compiled text (against the same answers of the storage, the iteration
\* order of the note types included) with each numbered placeholder ?N (a
\* SingleField leaf names its parameter by its position in the whole list)
\* raised by the number of parameters the children before it pushed.
C2_GroupIsShiftedConcatenation ==
    (Done /\ Ok /\ node.kind = "Group") =>
        LET parts == [i \in 1..Len(node.nodes) |-> ChildAlone(i)]
            shift(i) == ArgsBefore(parts, i)
        IN  /\ \A i \in 1..Len(parts) : parts[i].tag = "Ok"
            /\ result.sql = GroupText(parts, shift)
            /\ result.args = Flatten([i \in 1..Len(parts) |-> parts[i].args])
            /\ \A i \in 1..Len(parts) :
                  /\ node.nodes[i] = And => (parts[i].sql = <<" and ">> /\ parts[i].args = <<>>)
                  /\ node.nodes[i] = Or => (parts[i].sql = <<" or ">> /\ parts[i].args = <<>>)

\* Group([UnqualifiedText, And, SingleField]) with a matching field: the
\* second leaf's placeholder is ?3 in the group and ?1 on its own
C2_Witness ==
    /\ Done /\ Ok
    /\ node = Group(<<Search(UnqualifiedText(<<"a">>)), And,
                      Search(SingleField(<<"f">>, <<"a", "%">>))>>)
    /\ Count(result.sql, "?3") >= 1
    /\ Count(ChildAlone(3).sql, "?1") >= 1
    /\ result.args = << <<"%", "a", "%">>, <<"%", "a", "%">>, <<"a", "%">> >>

----------------------------------------------------------------------------
(* C3 *)

\* C3: Tag("none") pushes nothing and tests the tags column against the empty
\* string; any other Tag(text) emits one `tags like ?` and pushes exactly
\* " " + text.replace('*', '%') + " ".
C3_TagParameter ==
    (Done /\ node.kind = "Search" /\ node.search.kind = "Tag") =>
        /\ Ok
        /\ node.search.tag = STR_none =>
              (result.sql = <<"n.tags = ''">> /\ result.args = <<>>)
        /\ node.search.tag # STR_none =>
              /\ result.sql = <<"n.tags like ", "?">>
              /\ result.args = << <<" ">> \o replace(node.search.tag, "*", "%") \o <<" ">> >>

----------------------------------------------------------------------------
(* C4 *)

DeckIds(r) == {r.decks[i].id : i \in 1..Len(r.decks)}

\* the collaborator calls a leaf makes, in order
CallsOf(leaf) ==
    CASE leaf.kind \in {"Rated", "Property", "State"} -> <<"timing_today">>
      [] leaf.kind \in {"SingleField", "NoteType"} -> <<"all_note_types">>
      [] leaf.kind = "CardTemplate" /\ leaf.template.kind = "Name" -> <<"all_note_types">>
      [] leaf.kind = "Deck" /\ leaf.deck = STR_current -> <<"all_decks", "all_config">>
      [] leaf.kind = "Deck" /\ leaf.deck \notin {STR_star, STR_filtered} -> <<"all_decks">>
      [] OTHER -> <<>>

CallFails(r, leaf) == Range(CallsOf(leaf)) \cap r.fail # {}

DeckMissing(r, leaf) ==
    /\ leaf.kind = "Deck"
    /\ leaf.deck = STR_current
    /\ r.config.current_deck_id \notin DeckIds(r)

Aborts(r, leaf) == CallFails(r, leaf) \/ DeckMissing(r, leaf)

\* a Property Due leaf whose day sum leaves i32 in a build that checks
\* overflow: the compile panics there and no later leaf is compiled
Panics(r, leaf) ==
    /\ r.overflow_checks
    /\ leaf.kind = "Property" /\ leaf.kind_.kind = "Due"
    /\ ~CallFails(r, leaf)
    /\ AddOverflows(leaf.kind_.days, AsI32(r.timing.days_elapsed))

\* C4: when a collaborator call fails while a leaf is compiled, or a
\* Deck("current") leaf is compiled with the current deck id absent from the
\* catalog, node_to_sql returns an error (invalid input when it is the missing
\* deck that stops it) and neither text nor parameters, however many leaves
\* were compiled before; no call is made after the one that failed, and the
\* failing call is made once.
C4_FailureAborts ==
    Done =>
        LET leaves == LeavesOf(node)
            bad == {i \in 1..Len(leaves) : Aborts(req, leaves[i])}
            first == CHOOSE i \in bad : \A j \in bad : i <= j
            compiled == \A j \in 1..(first - 1) : ~Panics(req, leaves[j])
        IN  (bad # {} /\ compiled) =>
                  /\ result.tag = "Err"
                  /\ DOMAIN result \cap {"sql", "args"} = {}
                  /\ CallFails(req, leaves[first]) =>
                        /\ result.err = "DBError"
                        /\ result.calls[Len(result.calls)] \in req.fail
                        /\ \A k \in 1..(Len(result.calls) - 1) : result.calls[k] \notin req.fail
                  /\ ~CallFails(req, leaves[first]) =>
                        /\ result.err = "InvalidInput"
                        /\ \A k \in 1..Len(result.calls) : result.calls[k] \notin req.fail
                  /\ Len(result.calls) <= Len(Flatten([i \in 1..first |-> CallsOf(leaves[i])]))

\* a leaf that pushed its parameters was compiled before the Deck("current")
\* leaf whose deck is missing: the error is invalid input
C4_WitnessMissingDeck ==
    /\ Done
    /\ node.kind = "Group" /\ Len(node.nodes) = 3
    /\ node.nodes[1] = Search(UnqualifiedText(<<"a">>))
    /\ node.nodes[3] = Search(Deck(STR_current))
    /\ req.fail = {}
    /\ req.config.current_deck_id \notin DeckIds(req)
    /\ result.tag = "Err" /\ result.err = "InvalidInput"

----------------------------------------------------------------------------
(* C5 *)

NoFieldMatches(r, leaf) ==
    \A i \in 1..Len(r.note_types) : \A j \in 1..Len(r.note_types[i].fields) :
        to_ascii_lowercase(r.note_types[i].fields[j].name) # to_ascii_lowercase(leaf.field)

NoTemplateMatches(r, leaf) ==
    \A i \in 1..Len(r.note_types) : \A j \in 1..Len(r.note_types[i].templates) :
        ~matches_wildcard(r.note_types[i].templates[j].name, leaf.template.name)

NoNoteTypeMatches(r, leaf) ==
    \A i \in 1..Len(r.note_types) : ~matches_wildcard(r.note_types[i].name, leaf.notetype)

NoDeckMatches(r, leaf) ==
    \A i \in 1..Len(r.decks) : ~matches_wildcard(r.decks[i].name, leaf.deck)

\* C5: with the catalogs fetched and nothing matching, compilation succeeds;
\* a SingleField or Template::Name leaf is the literal `false` with no
\* parameter, whatever the number of note types, and a NoteType or
\* non-sentinel Deck leaf is an IN test over the empty list "()".
C5_EmptyMatchIsFalse ==
    (Done /\ node.kind = "Search" /\ req.fail = {}) =>
        LET leaf == node.search
        IN  /\ (leaf.kind = "SingleField" /\ NoFieldMatches(req, leaf)) =>
                  (Ok /\ result.sql = <<"false">> /\ result.args = <<>>)
            /\ (leaf.kind = "CardTemplate" /\ leaf.template.kind = "Name"
                   /\ NoTemplateMatches(req, leaf)) =>
                  (Ok /\ result.sql = <<"false">> /\ result.args = <<>>)
            /\ (leaf.kind = "NoteType" /\ NoNoteTypeMatches(req, leaf)) =>
                  (Ok /\ result.sql = <<"n.mid in ", "(", ")">> /\ result.args = <<>>)
            /\ (leaf.kind = "Deck"
                   /\ leaf.deck \notin {STR_star, STR_filtered, STR_current}
                   /\ NoDeckMatches(req, leaf)) =>
                  (Ok /\ result.sql = <<"c.did in ", "(", ")">> /\ result.args = <<>>)

\* a Template::Name leaf that matches nothing in a catalog of three note types
C5_Witness ==
    /\ Done /\ Ok
    /\ node = Search(CardTemplate(Name(<<"z">>)))
    /\ Len(req.note_types) = 3
    /\ result.sql = <<"false">>

----------------------------------------------------------------------------
(* C6 *)

Rendered(l) == [i \in 1..Len(l) |-> <<ToString(l[i])>>]

\* the second through last elements, then the first
Rotated(l) == IF l = <<>> THEN <<>> ELSE Tail(l) \o <<Head(l)>>

\* C6: ids_to_string leaves the buffer's content in place and appends "(",
\* the ids separated by single commas, ")": each input element once, the
\* second through last in input order and then the first; "()" for the empty
\* list, [7] gives "(7)", [7,6] gives "(6,7)", [7,6,5] gives "(6,5,7)".
C6_IdsToString ==
    (Done /\ ids # <<>>) =>
        LET before == ids[1]
            l == ids[2]
            out == SubSeq(buf, Len(before) + 1, Len(buf))
        IN  /\ SubSeq(buf, 1, Len(before)) = before
            /\ out = <<"(">> \o Join(Rendered(Rotated(l)), <<",">>) \o <<")">>
            /\ Len(out) = IF l = <<>> THEN 2 ELSE 2 * Len(l) + 1
            /\ l = <<>> => out = <<"(", ")">>
            /\ l = <<7>> => out = <<"(", "7", ")">>
            /\ l = <<7, 6>> => out = <<"(", "6", ",", "7", ")">>
            /\ l = <<7, 6, 5>> => out = <<"(", "6", ",", "5", ",", "7", ")">>

\* [7,6,5] appended to a buffer that already holds text
C6_Witness ==
    /\ Done
    /\ ids = << <<"c.did in ">>, <<7, 6, 5>> >>
    /\ buf = <<"c.did in ", "(", "6", ",", "5", ",", "7", ")">>

----------------------------------------------------------------------------
(* C7 *)

FieldBranch(m, placeholder) ==
    <<"(", "n.mid = ", ToString(m.ntid), " and ", "field_at_index", "(",
      "n.flds, ", ToString(m.ord), ")", " like ", placeholder, ")">>

\* C7: a SingleField(name, val) leaf whose name matches k >= 1 (note type,
\* field) pairs is the OR of exactly k branches (note_type = ID AND
\* field_at(flds, ord) LIKE placeholder), consecutive branches joined by
\* " or "; one parameter, val, is pushed and every branch's placeholder refers
\* to it, also after earlier leaves pushed parameters.
C7_SingleFieldBranchesJoinedByOr ==
    (Done /\ Ok /\ node.kind = "Group" /\ Len(node.nodes) = 3
          /\ node.nodes[1].kind = "Search" /\ node.nodes[3].kind = "Search"
          /\ node.nodes[3].search.kind = "SingleField"
          /\ MatchingFields(req.note_types, node.nodes[3].search.field) # <<>>) =>
        LET a == ChildAlone(1)
            m == MatchingFields(nt_orders[Len(nt_orders)], node.nodes[3].search.field)
            own == Len(a.args) + 1
            ph == "?" \o ToString(own)
            text == SubSeq(result.sql, Len(a.sql) + 3, Len(result.sql) - 1)
        IN  /\ result.args = Append(a.args, node.nodes[3].search.text)
            /\ text = <<"(">>
                        \o Join([i \in 1..Len(m) |-> FieldBranch(m[i], ph)], <<" or ">>)
                        \o <<")">>

----------------------------------------------------------------------------
(* C8 *)

TemplateBranch(m) ==
    <<"(", "n.mid = ", ToString(m.ntid), " and ", "c.ord = ", ToString(m.ord), ")">>

\* C8: a Template::Name(pattern) leaf whose pattern matches k >= 1 templates
\* is the OR of exactly k branches (note_type = ID AND ord = ORD), one for
\* each matching (note type, template) pair, consecutive branches joined by
\* " or ", and no parameter is pushed.
C8_TemplateBranchesJoinedByOr ==
    (Done /\ node.kind = "Search" /\ node.search.kind = "CardTemplate"
          /\ node.search.template.kind = "Name" /\ req.fail = {}
          /\ MatchingTemplates(req.note_types, node.search.template.name) # <<>>) =>
        LET m == MatchingTemplates(nt_orders[1], node.search.template.name)
        IN  /\ Ok
            /\ result.args = <<>>
            /\ result.sql = <<"(">>
                              \o Join([i \in 1..Len(m) |-> TemplateBranch(m[i])], <<" or ">>)
                              \o <<")">>

----------------------------------------------------------------------------
(* C9 *)

\* C9: on success the returned text has balanced parentheses: from the left
\* the count of ")" never exceeds the count of "(", and the counts are equal
\* at the end.
C9_BalancedParentheses ==
    (Done /\ Ok) => Balanced(result.sql)

----------------------------------------------------------------------------
(* C10 *)

\* C10: the text of a leaf is one self-delimited operand: every and/or
\* connector the leaf emits lies inside parentheses the leaf opens and closes,
\* so that the "not " of Not(Search(L)) negates the whole of L.
C10_LeafIsOneOperand ==
    (Done /\ Ok /\ (node.kind = "Search"
                    \/ (node.kind = "Not" /\ node.node.kind = "Search"))) =>
        ~HasTopLevelConnector(result.sql)

====
